---- MODULE Spec2Model ----
(***************************************************************************)
(* A model of src/opp.py, the single-file investment dashboard:            *)
(*   - get_portfolio_data, the portfolio aggregator (lines 95-158);        *)
(*   - the "refresh quotes" handler and the asset report of tab 3          *)
(*     (lines 456-502);                                                    *)
(*   - the two-stage DCF calculation of tab 2 (lines 218-262).             *)
(*                                                                         *)
(* Numbers.  The program computes in binary floating point.  The model     *)
(* computes the same expressions exactly: money amounts and share counts   *)
(* are integers, quotients are rationals <<n, d>> kept in lowest terms.    *)
(* Where the program divides by zero the model does what the program does: *)
(* a pandas column division gives inf / nan, a Python float division       *)
(* raises ZeroDivisionError.                                               *)
(***************************************************************************)
EXTENDS Integers, Sequences, FiniteSets, TLC

(***************************************************************************)
(* Bounds of the model.                                                    *)
(***************************************************************************)
\* The longest holdings list the model draws or builds with the add form.
MaxHoldings == 2
\* The number of user actions in a session of SpecPortfolio.
MaxClicks == 3

(***************************************************************************)
(* Table cells.  A cell of the holdings table either holds a value,        *)
(* Cell(v), or holds nothing usable, NoCell: a missing symbol (NaN), or a  *)
(* quantity / cost that float() rejects (a JSON backup may hold "abc").    *)
(***************************************************************************)
Cell(v) == <<v>>
NoCell == << >>
HasValue(c) == Len(c) = 1
ValueOf(c) == c[1]

(***************************************************************************)
(* Strings are sequences of characters, so that upper() and strip() are    *)
(* computed and not assumed.                                               *)
(***************************************************************************)
\* str.upper() on one character
UpperChar(c) == CASE c = "a" -> "A"
                  [] c = "b" -> "B"
                  [] OTHER -> c

\* str.upper()
Upper(s) == [k \in 1..Len(s) |-> UpperChar(s[k])]

RECURSIVE LStrip(_)
LStrip(s) == IF s # << >> /\ Head(s) = " " THEN LStrip(Tail(s)) ELSE s

RECURSIVE RStrip(_)
RStrip(s) == IF s # << >> /\ s[Len(s)] = " "
             THEN RStrip(SubSeq(s, 1, Len(s) - 1))
             ELSE s

\* str.strip()
Strip(s) == RStrip(LStrip(s))

\* line 113: symbol = str(row['代號']).upper().strip()
NormalizeSymbol(s) == Strip(Upper(s))

(***************************************************************************)
(* Exact arithmetic.                                                       *)
(***************************************************************************)
Abs(x) == IF x < 0 THEN -x ELSE x

RECURSIVE Gcd(_, _)
Gcd(a, b) == IF b = 0 THEN a ELSE Gcd(b, a % b)

\* the rational n / d (d # 0) in lowest terms with a positive denominator
Rat(n, d) == LET g == Gcd(Abs(n), Abs(d))
                 s == IF d < 0 THEN -1 ELSE 1
             IN  <<(s * n) \div g, (s * d) \div g>>

RInt(n) == <<n, 1>>
RAdd(a, b) == Rat(a[1] * b[2] + b[1] * a[2], a[2] * b[2])
RSub(a, b) == Rat(a[1] * b[2] - b[1] * a[2], a[2] * b[2])
RMul(a, b) == Rat(a[1] * b[1], a[2] * b[2])
\* a / b for b # 0
RDiv(a, b) == Rat(a[1] * b[2], a[2] * b[1])
RIsZero(a) == a[1] = 0
RLeq(a, b) == a[1] * b[2] <= b[1] * a[2]

RECURSIVE RPow(_, _)
RPow(a, k) == IF k = 0 THEN RInt(1) ELSE RMul(a, RPow(a, k - 1))

RECURSIVE RSum(_)
RSum(s) == IF s = << >> THEN RInt(0) ELSE RAdd(Head(s), RSum(Tail(s)))

(***************************************************************************)
(* A float produced by a pandas column division: finite, or inf / nan.     *)
(***************************************************************************)
Fin(r) == [kind |-> "fin", val |-> r]
NaN == [kind |-> "nan", val |-> RInt(0)]
PosInf == [kind |-> "inf", val |-> RInt(0)]
NegInf == [kind |-> "-inf", val |-> RInt(0)]

\* numpy float division x / y: no exception, x / 0 is nan or +-inf
FloatDiv(x, y) == IF y # 0 THEN Fin(Rat(x, y))
                  ELSE IF x = 0 THEN NaN
                  ELSE IF x > 0 THEN PosInf
                  ELSE NegInf

\* float * 100
FloatTimes100(f) == IF f.kind = "fin" THEN Fin(RMul(f.val, RInt(100))) ELSE f

\* IEEE addition
FloatAdd(f, g) ==
    IF f.kind = "fin" /\ g.kind = "fin" THEN Fin(RAdd(f.val, g.val))
    ELSE IF f.kind = "nan" \/ g.kind = "nan" THEN NaN
    ELSE IF f.kind = "fin" THEN g
    ELSE IF g.kind = "fin" THEN f
    ELSE IF f.kind = g.kind THEN f
    ELSE NaN

RECURSIVE FloatSum(_)
FloatSum(s) == IF s = << >> THEN Fin(RInt(0)) ELSE FloatAdd(Head(s), FloatSum(Tail(s)))

RECURSIVE IntSum(_)
IntSum(s) == IF s = << >> THEN 0 ELSE Head(s) + IntSum(Tail(s))

(***************************************************************************)
(* The price source (the Alpaca client), seen from get_portfolio_data.     *)
(* For the row at each position of the table it is given what the          *)
(* latest-trade request and the latest-quote request would answer there:   *)
(* a price, or an exception.                                               *)
(***************************************************************************)
TradePrices == {0, 180}
\* <<ask, bid>>; the sums are even, so the midpoint (ask + bid) / 2 is exact
QuotePairs == {<<0, 0>>, <<182, 178>>}

TradeFails == [ok |-> FALSE, price |-> 0, reason |-> "trade_error"]
QuoteFails == [ok |-> FALSE, ask |-> 0, bid |-> 0, reason |-> "quote_error"]
TradeAnswers == {TradeFails} \cup
                {[ok |-> TRUE, price |-> p, reason |-> ""] : p \in TradePrices}
QuoteAnswers == {QuoteFails} \cup
                {[ok |-> TRUE, ask |-> q[1], bid |-> q[2], reason |-> ""] : q \in QuotePairs}

(***************************************************************************)
(* get_portfolio_data, lines 95-158.                                       *)
(***************************************************************************)
\* SkipRow without the test of line 120: a zero quantity is looked up
SkipRow_NoZeroCheck(row) ==
    \/ row.remove = TRUE
    \/ ~HasValue(row.sym)
    \/ NormalizeSymbol(ValueOf(row.sym)) = << >>
    \/ ~HasValue(row.qty) \/ ~HasValue(row.cost)

\* lines 111-120: the rows the loop passes over without a lookup
SkipRow(row) ==
    \/ row.remove = TRUE                                    \* line 111
    \/ ~HasValue(row.sym)                                   \* line 112, pd.isna
    \/ NormalizeSymbol(ValueOf(row.sym)) = << >>            \* lines 113-114
    \/ ~HasValue(row.qty) \/ ~HasValue(row.cost)            \* lines 116-119, float() raises
    \/ ValueOf(row.qty) = 0                                 \* line 120

\* LookupPrice with a retry: a failed trade request is sent a second time
\* before the quote is asked for
LookupPrice_Retry(symbol, tr, qu) ==
    IF tr.ok
    THEN [ok |-> TRUE, price |-> tr.price, reason |-> "",
          requests |-> <<[kind |-> "trade", symbol |-> symbol]>>]
    ELSE IF qu.ok
    THEN [ok |-> TRUE, price |-> (qu.ask + qu.bid) \div 2, reason |-> "",
          requests |-> <<[kind |-> "trade", symbol |-> symbol],
                         [kind |-> "trade", symbol |-> symbol],
                         [kind |-> "quote", symbol |-> symbol]>>]
    ELSE [ok |-> FALSE, price |-> 0, reason |-> qu.reason,
          requests |-> <<[kind |-> "trade", symbol |-> symbol],
                         [kind |-> "trade", symbol |-> symbol],
                         [kind |-> "quote", symbol |-> symbol]>>]

\* lines 122-136: latest trade, then latest quote, then give up.
\* requests is what was sent to the price source for this row, in order.
LookupPrice(symbol, tr, qu) ==
    IF tr.ok
    THEN [ok |-> TRUE, price |-> tr.price, reason |-> "",
          requests |-> <<[kind |-> "trade", symbol |-> symbol]>>]
    ELSE IF qu.ok
    THEN [ok |-> TRUE, price |-> (qu.ask + qu.bid) \div 2, reason |-> "",
          requests |-> <<[kind |-> "trade", symbol |-> symbol],
                         [kind |-> "quote", symbol |-> symbol]>>]
    ELSE [ok |-> FALSE, price |-> 0, reason |-> qu.reason,
          requests |-> <<[kind |-> "trade", symbol |-> symbol],
                         [kind |-> "quote", symbol |-> symbol]>>]

\* MakePosition with the return taken on the price instead of the cost
MakePosition_RoiOnPrice(index, symbol, qty, cost, current_price) ==
    LET market_value == qty * current_price
        total_cost == qty * cost
        profit_per_share == current_price - cost
        total_profit == market_value - total_cost
        roi_percent == IF cost > 0 /\ current_price # 0
                       THEN RMul(Rat(profit_per_share, current_price), RInt(100))
                       ELSE RInt(0)
    IN  [idx |-> index, symbol |-> symbol, qty |-> qty, cost |-> cost,
         total_cost |-> total_cost, price |-> current_price,
         market_value |-> market_value, profit_per_share |-> profit_per_share,
         total_profit |-> total_profit, roi_percent |-> roi_percent]

\* lines 138-149: the result row of one priced holding
MakePosition(index, symbol, qty, cost, current_price) ==
    LET market_value == qty * current_price
        total_cost == qty * cost
        profit_per_share == current_price - cost
        total_profit == market_value - total_cost
        roi_percent == IF cost > 0
                       THEN RMul(Rat(profit_per_share, cost), RInt(100))
                       ELSE RInt(0)
    IN  [idx |-> index, symbol |-> symbol, qty |-> qty, cost |-> cost,
         total_cost |-> total_cost, price |-> current_price,
         market_value |-> market_value, profit_per_share |-> profit_per_share,
         total_profit |-> total_profit, roi_percent |-> roi_percent]

\* RowStep with line 135 missing: a failed lookup is passed over in silence
RowStep_Silent(acc, index, row, tr, qu) ==
    IF SkipRow(row) THEN acc
    ELSE LET symbol == NormalizeSymbol(ValueOf(row.sym))
             got == LookupPrice(symbol, tr, qu)
             sent == [k \in 1..Len(got.requests) |->
                        [idx |-> index, kind |-> got.requests[k].kind,
                         symbol |-> got.requests[k].symbol]]
         IN  IF got.ok
             THEN [results |-> Append(acc.results,
                                      MakePosition(index, symbol, ValueOf(row.qty),
                                                   ValueOf(row.cost), got.price)),
                   error_logs |-> acc.error_logs,
                   requests |-> acc.requests \o sent]
             ELSE [results |-> acc.results,
                   error_logs |-> acc.error_logs,
                   requests |-> acc.requests \o sent]

\* one pass of the loop body, lines 110-150.  acc is the loop's state:
\* results, error_logs, and the requests sent so far (with the row index).
\* The except of line 150 catches what lines 138-149 raise; with a number
\* for a price they raise nothing.
RowStep(acc, index, row, tr, qu) ==
    IF SkipRow(row) THEN acc
    ELSE LET symbol == NormalizeSymbol(ValueOf(row.sym))
             qty == ValueOf(row.qty)
             cost == ValueOf(row.cost)
             got == LookupPrice(symbol, tr, qu)
             sent == [k \in 1..Len(got.requests) |->
                        [idx |-> index, kind |-> got.requests[k].kind,
                         symbol |-> got.requests[k].symbol]]
         IN  IF got.ok
             THEN [results |-> Append(acc.results,
                                      MakePosition(index, symbol, qty, cost, got.price)),
                   error_logs |-> acc.error_logs,
                   requests |-> acc.requests \o sent]
             ELSE [results |-> acc.results,
                   error_logs |-> Append(acc.error_logs,
                                         [symbol |-> symbol, reason |-> got.reason]),
                   requests |-> acc.requests \o sent]

\* the loop of line 110 from row i on; the index of row i is i - 1 (line 108)
RECURSIVE RowLoop(_, _, _, _, _)
RowLoop(acc, i, input_df, trade, quote) ==
    IF i > Len(input_df) THEN acc
    ELSE RowLoop(RowStep(acc, i - 1, input_df[i], trade[i], quote[i]),
                 i + 1, input_df, trade, quote)

\* line 155: df['比重 (%)'] = (df['市值'] / total_val) * 100
WithWeight(pos, total_val) ==
    [idx |-> pos.idx, symbol |-> pos.symbol, qty |-> pos.qty, cost |-> pos.cost,
     total_cost |-> pos.total_cost, price |-> pos.price,
     market_value |-> pos.market_value, profit_per_share |-> pos.profit_per_share,
     total_profit |-> pos.total_profit, roi_percent |-> pos.roi_percent,
     weight |-> FloatTimes100(FloatDiv(pos.market_value, total_val))]

\* Finish with line 158 returning an empty error list, as line 107 does
Finish_DropsErrors(results, error_logs) ==
    IF results # << >>
    THEN LET total_val == IntSum([k \in 1..Len(results) |-> results[k].market_value])
         IN  [df |-> [k \in 1..Len(results) |-> WithWeight(results[k], total_val)],
              total_val |-> total_val,
              errs |-> error_logs]
    ELSE [df |-> << >>, total_val |-> 0, errs |-> << >>]

\* lines 152-158: the return value built from the loop's results
Finish(results, error_logs) ==
    IF results # << >>
    THEN LET total_val == IntSum([k \in 1..Len(results) |-> results[k].market_value])
         IN  [df |-> [k \in 1..Len(results) |-> WithWeight(results[k], total_val)],
              total_val |-> total_val,
              errs |-> error_logs]
    ELSE [df |-> << >>, total_val |-> 0, errs |-> error_logs]

\* line 102: the message returned when the client cannot be constructed
ConnectionError == [symbol |-> << >>, reason |-> "API_connection_failed"]

\* get_portfolio_data(api_key, secret_key, input_df).  client_ok says whether
\* StockHistoricalDataClient(api_key, secret_key) was constructed; trade and
\* quote are the price source's answers.  The value is the returned triple
\* and, beside it, the requests the call sent.
get_portfolio_data(client_ok, input_df, trade, quote) ==
    IF ~client_ok
    THEN [df |-> << >>, total_val |-> 0, errs |-> <<ConnectionError>>,
          requests |-> << >>]
    ELSE IF input_df = << >>
    THEN [df |-> << >>, total_val |-> 0, errs |-> << >>, requests |-> << >>]
    ELSE LET acc == RowLoop([results |-> << >>, error_logs |-> << >>,
                             requests |-> << >>], 1, input_df, trade, quote)
             ret == Finish(acc.results, acc.error_logs)
         IN  [df |-> ret.df, total_val |-> ret.total_val, errs |-> ret.errs,
              requests |-> acc.requests]

(***************************************************************************)
(* The asset report of tab 3, lines 469-502.                               *)
(***************************************************************************)
\* the order of the characters the model uses
CharRank(c) == CASE c = " " -> 0
                 [] c = "A" -> 1
                 [] c = "B" -> 2
                 [] c = "D" -> 3
                 [] c = "L" -> 4
                 [] c = "N" -> 5
                 [] c = "S" -> 6
                 [] c = "T" -> 7
                 [] c = "V" -> 8
                 [] c = "a" -> 9
                 [] OTHER -> 10

\* s < t for strings
RECURSIVE StrLess(_, _)
StrLess(s, t) ==
    IF t = << >> THEN FALSE
    ELSE IF s = << >> THEN TRUE
    ELSE IF Head(s) # Head(t) THEN CharRank(Head(s)) < CharRank(Head(t))
    ELSE StrLess(Tail(s), Tail(t))

\* the strings of a finite set in increasing order
RECURSIVE SortedStrings(_)
SortedStrings(S) ==
    IF S = {} THEN << >>
    ELSE LET least == CHOOSE s \in S : \A t \in S \ {s} : StrLess(s, t)
         IN  <<least>> \o SortedStrings(S \ {least})

\* line 487: df.groupby('代號')['市值'].sum().reset_index(), one row per symbol,
\* in the order of the symbols
GroupBySymbol(df) ==
    LET symbols == SortedStrings({df[k].symbol : k \in 1..Len(df)})
        SumOf(sym) == IntSum([k \in 1..Len(df) |->
                                IF df[k].symbol = sym THEN df[k].market_value ELSE 0])
    IN  [j \in 1..Len(symbols) |->
           [label |-> symbols[j], market_value |-> SumOf(symbols[j])]]

\* line 491: one row per result row
DetailRows(df) ==
    [k \in 1..Len(df) |-> [label |-> df[k].symbol, market_value |-> df[k].market_value]]

CashLabel == <<"C", "A", "S", "H">>

\* lines 486-502: the rows of the pie chart with their Percent_Val
PlotDf(df, chart_mode, cash, stock_val) ==
    LET total_assets == stock_val + cash                          \* line 475
        plot_df == IF chart_mode = "Merge" THEN GroupBySymbol(df) ELSE DetailRows(df)
        with_cash == IF cash > 0                                   \* lines 497-499
                     THEN Append(plot_df, [label |-> CashLabel, market_value |-> cash])
                     ELSE plot_df
    IN  [k \in 1..Len(with_cash) |->
           [label |-> with_cash[k].label,
            market_value |-> with_cash[k].market_value,
            percent |-> FloatTimes100(FloatDiv(with_cash[k].market_value,
                                               total_assets))]]      \* line 502

(***************************************************************************)
(* The holdings the model draws.                                           *)
(***************************************************************************)
SymbolCells == {NoCell, Cell(<<" ">>), Cell(<<" ", "a", "b", " ">>)}
QtyCells == {NoCell, Cell(0), Cell(10)}
CostCells == {NoCell, Cell(0), Cell(150)}
Holdings == [sym : SymbolCells, qty : QtyCells, cost : CostCells, remove : BOOLEAN]
HoldingLists == UNION {[1..n -> Holdings] : n \in 0..MaxHoldings}
CashValues == {0, 1800, 9000}
ChartModes == {"Merge", "Detail"}

(***************************************************************************)
(* State.                                                                  *)
(*   my_portfolio_data, my_cash_balance, portfolio_df, total_val:          *)
(*       st.session_state of tab 3 (lines 283-289, 458-459);               *)
(*   chart_mode: the radio button of line 483;                             *)
(*   call: a record of the last get_portfolio_data call (what it was given,*)
(*       what the price source answered, what it sent and returned);       *)
(*   dcf_in, dcf_out: the inputs of tab 2 and what the last press of the   *)
(*       DCF button showed;                                                *)
(*   saved_portfolios: the record of the cloud bin that                    *)
(*       load_saved_portfolios fetches on every run (lines 49-59, 297);    *)
(*   clicks: the number of user actions a bounded session has seen.        *)
(***************************************************************************)
VARIABLES my_portfolio_data, my_cash_balance, portfolio_df, total_val,
          chart_mode, call, dcf_in, dcf_out, saved_portfolios, clicks

vars == <<my_portfolio_data, my_cash_balance, portfolio_df, total_val,
          chart_mode, call, dcf_in, dcf_out, saved_portfolios, clicks>>

portfolio_vars == <<my_portfolio_data, my_cash_balance, portfolio_df, total_val,
                    chart_mode, call>>
dcf_vars == <<dcf_in, dcf_out>>

\* no call made yet
NoCall == [made |-> FALSE, client_ok |-> FALSE, input |-> << >>,
           trade |-> << >>, quote |-> << >>, errs |-> << >>, requests |-> << >>]

\* an empty cloud bin: no group saved
NoGroups == << >>

\* lines 283-289, 458-459, with the holdings table drawn from HoldingLists
InitPortfolio ==
    /\ saved_portfolios = NoGroups
    /\ clicks = 0
    /\ my_portfolio_data \in HoldingLists
    /\ my_cash_balance = 0
    /\ portfolio_df = [none |-> TRUE, rows |-> << >>]
    /\ total_val = 0
    /\ chart_mode = "Merge"
    /\ call = NoCall

\* The answers of the price source that matter for one row: a row that is
\* not looked up has no answer to choose, and neither has a quote that
\* follows a trade.
RowAnswers(client_ok, row) ==
    IF ~client_ok \/ SkipRow(row)
    THEN {[trade |-> TradeFails, quote |-> QuoteFails]}
    ELSE {[trade |-> t, quote |-> QuoteFails] : t \in TradeAnswers \ {TradeFails}}
         \cup {[trade |-> TradeFails, quote |-> q] : q \in QuoteAnswers}

\* one answer per row of the table
RECURSIVE Answers(_, _)
Answers(client_ok, input_df) ==
    IF input_df = << >> THEN {<< >>}
    ELSE {<<h>> \o t : h \in RowAnswers(client_ok, Head(input_df)),
                       t \in Answers(client_ok, Tail(input_df))}

\* lines 461-466: the "refresh quotes" button
RefreshQuotes ==
    /\ \E client_ok \in BOOLEAN :
         \E a \in Answers(client_ok, my_portfolio_data) :
           LET trade == [i \in 1..Len(a) |-> a[i].trade]
               quote == [i \in 1..Len(a) |-> a[i].quote]
           IN  \E ret \in {get_portfolio_data(client_ok, my_portfolio_data,
                                              trade, quote)} :
                 /\ portfolio_df' = [none |-> FALSE, rows |-> ret.df]
                 /\ total_val' = ret.total_val
                 /\ call' = [made |-> TRUE, client_ok |-> client_ok,
                             input |-> my_portfolio_data,
                             trade |-> trade, quote |-> quote,
                             errs |-> ret.errs, requests |-> ret.requests]
    /\ UNCHANGED <<my_portfolio_data, my_cash_balance, chart_mode, dcf_in, dcf_out,
                   saved_portfolios>>

\* lines 400-407: the cash balance input (min_value = 0.0)
SetCash ==
    /\ \E c \in CashValues : c # my_cash_balance /\ my_cash_balance' = c
    /\ UNCHANGED <<my_portfolio_data, portfolio_df, total_val, chart_mode, call,
                   dcf_in, dcf_out, saved_portfolios>>

\* line 483: the chart mode radio, shown with the report (line 469)
ReportShown == ~portfolio_df.none /\ portfolio_df.rows # << >>

SetChartMode ==
    /\ ReportShown
    /\ \E m \in ChartModes : m # chart_mode /\ chart_mode' = m
    /\ UNCHANGED <<my_portfolio_data, my_cash_balance, portfolio_df, total_val, call,
                   dcf_in, dcf_out, saved_portfolios>>

(***************************************************************************)
(* The handlers of tab 3 that change the holdings table, the cash balance  *)
(* and the cloud bin, lines 291-454.  One press is one run of the script:  *)
(* line 291 adds the removal column to a table that lacks it, the pressed  *)
(* button's branch runs, and the data editor of line 430 hands back the    *)
(* table with the user's edits.                                            *)
(***************************************************************************)
\* group names typed at line 340; the empty text is no name
SaveNames == {"", "g"}

\* lines 343-346 and 357-361: to_dict('records') of the table with the cash
\* balance, as it comes back from JSON; has_flags tells that the records
\* carry the removal column, format "list" is the old bare list of records
DataPack(format, cash, has_flags, records) ==
    [format |-> format, cash |-> cash, has_flags |-> has_flags, portfolio |-> records]
ToRecords(df) == [i \in 1..Len(df) |-> [sym |-> df[i].sym, qty |-> df[i].qty,
                                        cost |-> df[i].cost, remove |-> df[i].remove]]

\* lines 291-292 and 325: a table without the removal column gets it, all False
WithRemoveColumn(records, has_flags) ==
    [i \in 1..Len(records) |->
        [records[i] EXCEPT !.remove = IF has_flags THEN @ ELSE FALSE]]

\* the holding the backup files and the old cloud group of the model hold
SavedHolding == [sym |-> Cell(<<"A", "B">>), qty |-> Cell(10), cost |-> Cell(150),
                 remove |-> FALSE]
\* a group saved by an old version of the program: a bare list
OldGroup == DataPack("list", 0, FALSE, <<SavedHolding>>)
\* the files the user uploads at line 375
BackupFiles == {DataPack("pack", 1800, TRUE, << >>),
                DataPack("list", 0, FALSE, <<SavedHolding>>)}

\* the texts and numbers typed into the add form (lines 412-414) and into
\* the cells of the data editor (lines 434-437)
AddSymbolTexts == {<<" ">>, <<" ", "a", "b", " ">>}
AddQtys == {0, 10}
AddCosts == {150}
EditQtyCells == {Cell(10)}
EditCostCells == {Cell(0)}

\* saved_portfolios[name] = pack (line 347)
PutGroup(groups, name, pack) ==
    [n \in DOMAIN groups \cup {name} |-> IF n = name THEN pack ELSE groups[n]]
\* del saved_portfolios[name] (line 332)
DelGroup(groups, name) == [n \in DOMAIN groups \ {name} |-> groups[n]]

\* lines 311-329: the "load group" button.  An empty portfolio gives a
\* DataFrame without columns and line 323 raises KeyError after line 318 or
\* 322 has stored the cash balance.
LoadGroup ==
    /\ DOMAIN saved_portfolios # {}
    /\ \E selected_group \in DOMAIN saved_portfolios :
         LET data_pack == saved_portfolios[selected_group]
             loaded_df == data_pack.portfolio
         IN  /\ my_cash_balance' = IF data_pack.format = "pack" THEN data_pack.cash ELSE 0
             /\ my_portfolio_data' =
                    IF loaded_df = << >> THEN my_portfolio_data
                    ELSE WithRemoveColumn(loaded_df, data_pack.has_flags)
    /\ UNCHANGED <<portfolio_df, total_val, chart_mode, call, dcf_in, dcf_out,
                   saved_portfolios>>

\* lines 331-335: the "delete group" button; the PUT of line 69 may fail
DeleteGroup ==
    /\ DOMAIN saved_portfolios # {}
    /\ \E selected_group \in DOMAIN saved_portfolios, put_ok \in BOOLEAN :
         saved_portfolios' = IF put_ok THEN DelGroup(saved_portfolios, selected_group)
                             ELSE saved_portfolios
    /\ UNCHANGED <<my_portfolio_data, my_cash_balance, portfolio_df, total_val,
                   chart_mode, call, dcf_in, dcf_out>>

\* lines 340-351: the "upload to cloud" button
UploadCloud ==
    /\ \E save_name \in SaveNames, put_ok \in BOOLEAN :
         saved_portfolios' =
            IF save_name # "" /\ put_ok
            THEN PutGroup(saved_portfolios, save_name,
                          DataPack("pack", my_cash_balance, TRUE,
                                   ToRecords(my_portfolio_data)))
            ELSE saved_portfolios
    /\ UNCHANGED <<my_portfolio_data, my_cash_balance, portfolio_df, total_val,
                   chart_mode, call, dcf_in, dcf_out>>

\* lines 375-390: the "restore" button on an uploaded backup file
RestoreBackup ==
    /\ \E restored_data \in BackupFiles :
         /\ my_portfolio_data' = WithRemoveColumn(restored_data.portfolio,
                                                  restored_data.has_flags)
         /\ my_cash_balance' = IF restored_data.format = "pack" THEN restored_data.cash
                               ELSE 0
    /\ UNCHANGED <<portfolio_df, total_val, chart_mode, call, dcf_in, dcf_out,
                   saved_portfolios>>

\* AddHolding that also throws the stored snapshot away
AddHolding_ClearsSnapshot ==
    /\ Len(my_portfolio_data) < MaxHoldings
    /\ \E text \in AddSymbolTexts, new_qty \in AddQtys, new_cost \in AddCosts :
         LET new_symbol == Strip(Upper(text))
             new_row == [sym |-> Cell(new_symbol), qty |-> Cell(new_qty),
                         cost |-> Cell(new_cost), remove |-> FALSE]
         IN  my_portfolio_data' = IF new_symbol # << >> /\ new_qty > 0
                                  THEN Append(my_portfolio_data, new_row)
                                  ELSE my_portfolio_data
    /\ portfolio_df' = [none |-> TRUE, rows |-> << >>]
    /\ total_val' = 0
    /\ UNCHANGED <<my_cash_balance, chart_mode, call, dcf_in, dcf_out, saved_portfolios>>

\* lines 412-424: the "add" button
AddHolding ==
    /\ Len(my_portfolio_data) < MaxHoldings
    /\ \E text \in AddSymbolTexts, new_qty \in AddQtys, new_cost \in AddCosts :
         LET new_symbol == Strip(Upper(text))
             new_row == [sym |-> Cell(new_symbol), qty |-> Cell(new_qty),
                         cost |-> Cell(new_cost), remove |-> FALSE]
         IN  my_portfolio_data' = IF new_symbol # << >> /\ new_qty > 0
                                  THEN Append(my_portfolio_data, new_row)
                                  ELSE my_portfolio_data
    /\ UNCHANGED <<my_cash_balance, portfolio_df, total_val, chart_mode, call,
                   dcf_in, dcf_out, saved_portfolios>>

\* lines 430-442: one edit in the data editor (num_rows = "fixed", the
\* symbol column disabled): a quantity, a cost or a removal flag
EditHolding ==
    /\ \E i \in 1..Len(my_portfolio_data) :
         \/ \E q \in EditQtyCells :
              /\ q # my_portfolio_data[i].qty
              /\ my_portfolio_data' = [my_portfolio_data EXCEPT ![i].qty = q]
         \/ \E c \in EditCostCells :
              /\ c # my_portfolio_data[i].cost
              /\ my_portfolio_data' = [my_portfolio_data EXCEPT ![i].cost = c]
         \/ my_portfolio_data' = [my_portfolio_data EXCEPT ![i].remove = ~@]
    /\ UNCHANGED <<my_cash_balance, portfolio_df, total_val, chart_mode, call,
                   dcf_in, dcf_out, saved_portfolios>>

\* DeleteChecked without the negation of line 450: the checked holdings stay
DeleteChecked_KeepsChecked ==
    /\ my_portfolio_data' =
          LET new_df == SelectSeq(my_portfolio_data, LAMBDA row : row.remove)
          IN  [i \in 1..Len(new_df) |-> [new_df[i] EXCEPT !.remove = FALSE]]
    /\ UNCHANGED <<my_cash_balance, portfolio_df, total_val, chart_mode, call,
                   dcf_in, dcf_out, saved_portfolios>>

\* lines 447-454: the "delete checked" button
DeleteChecked ==
    /\ my_portfolio_data' =
          LET new_df == SelectSeq(my_portfolio_data, LAMBDA row : ~row.remove)
          IN  [i \in 1..Len(new_df) |-> [new_df[i] EXCEPT !.remove = FALSE]]
    /\ UNCHANGED <<my_cash_balance, portfolio_df, total_val, chart_mode, call,
                   dcf_in, dcf_out, saved_portfolios>>

\* lines 473-475 and 486-502 on the stored snapshot
total_assets == total_val + my_cash_balance
Chart == PlotDf(portfolio_df.rows, chart_mode, my_cash_balance, total_val)

(***************************************************************************)
(* The DCF calculation of tab 2, lines 218-262.                            *)
(* The four rates are entered in percent with step 0.1; the model holds    *)
(* them in tenths of a percent, so the rate is value / 1000 (the / 100 of  *)
(* lines 221-224).                                                         *)
(***************************************************************************)
\* line 238: for i in range(1, 11)
Periods == 10
\* line 240: g = growth_rate_1_5 if i <= 5 else growth_rate_6_10
Stage1Periods == 5

\* number_input(...) / 100 for a value held in tenths of a percent
RateOf(tenths) == Rat(tenths, 1000)

\* lines 238-245, from period i on.  acc holds the three lists, temp_fcf
\* and raised; a zero discount factor raises ZeroDivisionError at line 245,
\* after lines 242 and 244 have appended.
RECURSIVE Project(_, _, _, _, _)
Project(acc, i, growth_rate_1_5, growth_rate_6_10, discount_rate) ==
    IF i > Periods \/ acc.raised THEN acc
    ELSE LET g == IF i <= Stage1Periods THEN growth_rate_1_5 ELSE growth_rate_6_10
             temp_fcf == RMul(acc.temp_fcf, RAdd(RInt(1), g))
             factor == RPow(RAdd(RInt(1), discount_rate), i)
             next == [temp_fcf |-> temp_fcf,
                      future_fcf |-> Append(acc.future_fcf, temp_fcf),
                      discount_factors |-> Append(acc.discount_factors, factor),
                      discounted_fcf |-> IF RIsZero(factor) THEN acc.discounted_fcf
                                         ELSE Append(acc.discounted_fcf,
                                                     RDiv(temp_fcf, factor)),
                      raised |-> RIsZero(factor)]
         IN  Project(next, i + 1, growth_rate_1_5, growth_rate_6_10, discount_rate)

\* lines 254-256
MarginOfSafety(fair_value_per_share, default_price) ==
    IF default_price > 0
    THEN RMul(RDiv(RSub(fair_value_per_share, RInt(default_price)),
                   RInt(default_price)), RInt(100))
    ELSE RInt(0)

\* what a press of the DCF button leaves: kind is "error" for the st.error
\* of line 247, "exception" for an uncaught ZeroDivisionError (nothing below
\* the raising line runs), "result" for lines 257-269.  A value that was
\* not computed is NoCell.
DcfOutcome(kind, raised_at, proj, tv, tvd, ev, eq, fv, mos) ==
    [kind |-> kind, raised_at |-> raised_at,
     future_fcf |-> proj.future_fcf,
     discount_factors |-> proj.discount_factors,
     discounted_fcf |-> proj.discounted_fcf,
     terminal_value |-> tv, terminal_value_discounted |-> tvd,
     enterprise_value |-> ev, equity_value |-> eq,
     fair_value_per_share |-> fv, margin_of_safety |-> mos]

NoProjection == [temp_fcf |-> RInt(0), future_fcf |-> << >>,
                 discount_factors |-> << >>, discounted_fcf |-> << >>,
                 raised |-> FALSE]

\* before the button is pressed
DcfNone == DcfOutcome("none", "", NoProjection,
                      NoCell, NoCell, NoCell, NoCell, NoCell, NoCell)

\* lines 231-262
DcfCalculation(in) ==
    LET growth_rate_1_5 == RateOf(in.growth_1_5)
        growth_rate_6_10 == RateOf(in.growth_6_10)
        perpetual_rate == RateOf(in.perpetual)
        discount_rate == RateOf(in.discount)
        proj == Project([temp_fcf |-> RInt(in.base_fcf), future_fcf |-> << >>,
                         discount_factors |-> << >>, discounted_fcf |-> << >>,
                         raised |-> FALSE],
                        1, growth_rate_1_5, growth_rate_6_10, discount_rate)
    IN  IF proj.raised
        THEN DcfOutcome("exception", "projection", proj,
                        NoCell, NoCell, NoCell, NoCell, NoCell, NoCell)
        ELSE IF RLeq(discount_rate, perpetual_rate)                    \* line 246
        THEN DcfOutcome("error", "", proj,
                        NoCell, NoCell, NoCell, NoCell, NoCell, NoCell)
        ELSE LET terminal_value ==
                     RDiv(RMul(proj.future_fcf[Periods], RAdd(RInt(1), perpetual_rate)),
                          RSub(discount_rate, perpetual_rate))
                 terminal_value_discounted ==
                     RDiv(terminal_value, RPow(RAdd(RInt(1), discount_rate), Periods))
                 enterprise_value == RAdd(RSum(proj.discounted_fcf),
                                          terminal_value_discounted)
                 equity_value == RSub(RAdd(enterprise_value, RInt(in.cash_and_equiv)),
                                      RInt(in.total_debt))
             IN  IF in.shares_out = 0                                  \* line 253 raises
                 THEN DcfOutcome("exception", "per_share", proj,
                                 Cell(terminal_value), Cell(terminal_value_discounted),
                                 Cell(enterprise_value), Cell(equity_value),
                                 NoCell, NoCell)
                 ELSE LET fair_value_per_share ==
                              RDiv(equity_value, RInt(in.shares_out))
                      IN  DcfOutcome("result", "", proj,
                                     Cell(terminal_value), Cell(terminal_value_discounted),
                                     Cell(enterprise_value), Cell(equity_value),
                                     Cell(fair_value_per_share),
                                     Cell(MarginOfSafety(fair_value_per_share,
                                                         in.default_price)))

\* the inputs the model draws
GrowthValues == {0, 1000}
RateValues == {-1000, 0, 1000}
FcfValues == {0, 100}
CashDebtValues == {0, 50}
ShareValues == {-10, 0, 10}
PriceValues == {0, 5, 10}
DcfInputs == [growth_1_5 : GrowthValues, growth_6_10 : GrowthValues,
              perpetual : RateValues, discount : RateValues,
              base_fcf : FcfValues, cash_and_equiv : CashDebtValues,
              total_debt : CashDebtValues, shares_out : ShareValues,
              default_price : PriceValues]

\* lines 217, 221-224: the widgets' values when nothing was fetched or typed
DefaultDcfIn == [growth_1_5 |-> 100, growth_6_10 |-> 50, perpetual |-> 25,
                 discount |-> 90, base_fcf |-> 0, cash_and_equiv |-> 0,
                 total_debt |-> 0, shares_out |-> 1, default_price |-> 0]

\* lines 284-287: the portfolio a new session starts with
DefaultPortfolio ==
    <<[sym |-> Cell(<<"N", "V", "D", "A">>), qty |-> Cell(100), cost |-> Cell(120),
       remove |-> FALSE],
      [sym |-> Cell(<<"T", "S", "L", "A">>), qty |-> Cell(50), cost |-> Cell(180),
       remove |-> FALSE]>>

InitDcfDefault == dcf_in = DefaultDcfIn /\ dcf_out = DcfNone

\* line 231: the DCF button
CalculateDCF ==
    /\ dcf_out.kind = "none"
    /\ dcf_out' = DcfCalculation(dcf_in)
    /\ UNCHANGED <<dcf_in, my_portfolio_data, my_cash_balance, portfolio_df,
                   total_val, chart_mode, call, saved_portfolios>>

(***************************************************************************)
(* Specifications.                                                         *)
(*   Spec:        get_portfolio_data, called by the refresh button, on any *)
(*                holdings table.                                          *)
(*   SpecSession: a session of tab 3 from its first run.                   *)
(*   SpecDCF:     the DCF calculator on any inputs.                        *)
(*   SpecPortfolio: the first MaxClicks user actions of a session of tab 3 *)
(*                on its holdings, cash and cloud groups.                  *)
(***************************************************************************)
Init == InitPortfolio /\ InitDcfDefault

Next == RefreshQuotes /\ UNCHANGED clicks

Spec == Init /\ [][Next]_vars

\* lines 283-289, 458-459, 483
InitSession ==
    /\ my_portfolio_data = DefaultPortfolio
    /\ my_cash_balance = 0
    /\ portfolio_df = [none |-> TRUE, rows |-> << >>]
    /\ total_val = 0
    /\ chart_mode = "Merge"
    /\ call = NoCall
    /\ saved_portfolios = NoGroups
    /\ clicks = 0
    /\ InitDcfDefault

NextSession ==
    \/ RefreshQuotes /\ UNCHANGED clicks
    \/ SetCash /\ UNCHANGED clicks
    \/ SetChartMode /\ UNCHANGED clicks

SpecSession == InitSession /\ [][NextSession]_vars

InitDCF ==
    /\ dcf_in \in DcfInputs
    /\ dcf_out = DcfNone
    /\ my_portfolio_data = DefaultPortfolio
    /\ my_cash_balance = 0
    /\ portfolio_df = [none |-> TRUE, rows |-> << >>]
    /\ total_val = 0
    /\ chart_mode = "Merge"
    /\ call = NoCall
    /\ saved_portfolios = NoGroups
    /\ clicks = 0

NextDCF == CalculateDCF /\ UNCHANGED clicks

SpecDCF == InitDCF /\ [][NextDCF]_vars

\* lines 283-289, 458-459, with a group of an old version in the cloud bin
InitPortfolioSession ==
    /\ my_portfolio_data = DefaultPortfolio
    /\ my_cash_balance = 0
    /\ portfolio_df = [none |-> TRUE, rows |-> << >>]
    /\ total_val = 0
    /\ chart_mode = "Merge"
    /\ call = NoCall
    /\ saved_portfolios = PutGroup(NoGroups, "g", OldGroup)
    /\ clicks = 0
    /\ InitDcfDefault

\* one more user action of the bounded session
Click == clicks < MaxClicks /\ clicks' = clicks + 1

NextPortfolio ==
    \/ Click /\ AddHolding
    \/ Click /\ EditHolding
    \/ Click /\ DeleteChecked
    \/ Click /\ RefreshQuotes
    \/ Click /\ SetCash
    \/ Click /\ UploadCloud
    \/ Click /\ LoadGroup
    \/ Click /\ DeleteGroup
    \/ Click /\ RestoreBackup

SpecPortfolio == InitPortfolioSession /\ [][NextPortfolio]_vars

(***************************************************************************)
(* Properties of get_portfolio_data.  They are stated on the record of the *)
(* last call, in the claim's own terms: the rows are told apart by their   *)
(* cells and by what the price source answered, not by SkipRow.            *)
(***************************************************************************)
\* the loop of line 110 ran in the last call
LoopRan == call.made /\ call.client_ok

Rows == 1..Len(call.input)
Removed(i) == call.input[i].remove = TRUE
SymbolMissingOrEmpty(i) ==
    \/ ~HasValue(call.input[i].sym)
    \/ Strip(ValueOf(call.input[i].sym)) = << >>
QtyIsZero(i) == HasValue(call.input[i].qty) /\ ValueOf(call.input[i].qty) = 0
Unparseable(i) == ~HasValue(call.input[i].qty) \/ ~HasValue(call.input[i].cost)
\* the holding of row i passes the skip filter
PassesFilter(i) ==
    ~(Removed(i) \/ SymbolMissingOrEmpty(i) \/ Unparseable(i) \/ QtyIsZero(i))

\* what the call sent for row i, the result rows it returned for row i
RequestsFor(i) == SelectSeq(call.requests, LAMBDA r : r.idx = i - 1)
PositionsFor(i) == SelectSeq(portfolio_df.rows, LAMBDA q : q.idx = i - 1)
LookedUp(i) == RequestsFor(i) # << >>

\* the price source gave a price for row i: by the trade, or else by the quote
PriceGiven(i) == call.trade[i].ok \/ call.quote[i].ok
GivenPrice(i) == IF call.trade[i].ok THEN call.trade[i].price
                 ELSE (call.quote[i].ask + call.quote[i].bid) \div 2

\* the rows of S in increasing order
RECURSIVE RowsInOrder(_)
RowsInOrder(S) ==
    IF S = {} THEN << >>
    ELSE LET least == CHOOSE i \in S : \A j \in S : i <= j
         IN  <<least>> \o RowsInOrder(S \ {least})

TickerOf(i) == Strip(Upper(ValueOf(call.input[i].sym)))
ErrorSymbols == [k \in 1..Len(call.errs) |-> call.errs[k].symbol]
SymbolsOfRows(S) == LET rs == RowsInOrder(S) IN [k \in 1..Len(rs) |-> TickerOf(rs[k])]

\* the rows that were looked up and got no result row
LookedUpUnpriced == {i \in Rows : LookedUp(i) /\ PositionsFor(i) = << >>}

\* C1: once the loop runs, every holding that passes the skip filter yields
\* exactly one position when the price source gives a price for it, whatever happens
\* to the other holdings, and otherwise yields no position and one entry of
\* the error list; the positions carry the holding's own symbol, quantity,
\* cost and price, and are in input order.
C1_PositionOrError ==
    LoopRan =>
        /\ \A i \in Rows : PassesFilter(i) =>
              IF PriceGiven(i)
              THEN /\ Len(PositionsFor(i)) = 1
                   /\ PositionsFor(i)[1].symbol = TickerOf(i)
                   /\ PositionsFor(i)[1].qty = ValueOf(call.input[i].qty)
                   /\ PositionsFor(i)[1].cost = ValueOf(call.input[i].cost)
                   /\ PositionsFor(i)[1].price = GivenPrice(i)
              ELSE PositionsFor(i) = << >>
        /\ ErrorSymbols = SymbolsOfRows({i \in Rows : PassesFilter(i) /\ ~PriceGiven(i)})
        /\ \A k \in 1..Len(portfolio_df.rows) - 1 :
              portfolio_df.rows[k].idx < portfolio_df.rows[k + 1].idx
        /\ \A k \in 1..Len(portfolio_df.rows) :
              /\ portfolio_df.rows[k].idx + 1 \in Rows
              /\ PassesFilter(portfolio_df.rows[k].idx + 1)

\* C1 witness: the first holding's lookup failed and the second one, after
\* it, was priced.
C1_Witness ==
    /\ LoopRan /\ Len(call.input) = 2
    /\ PassesFilter(1) /\ ~PriceGiven(1)
    /\ PassesFilter(2) /\ PriceGiven(2)
    /\ Len(portfolio_df.rows) = 1 /\ Len(call.errs) = 1

\* C2 (as claimed): no lookup, position or error for a holding that is
\* removed, has a missing or empty symbol or has quantity 0, and every other
\* holding is looked up.
C2_Original ==
    LoopRan =>
        /\ \A i \in Rows :
              LookedUp(i) <=> ~(Removed(i) \/ SymbolMissingOrEmpty(i) \/ QtyIsZero(i))
        /\ \A i \in Rows : ~LookedUp(i) => PositionsFor(i) = << >>
        /\ ErrorSymbols = SymbolsOfRows(LookedUpUnpriced)

\* C2 (amended): a holding is looked up exactly when it is not removed, its
\* symbol is present and not empty after trimming, its quantity and cost
\* parse as numbers and its quantity is not 0; a holding that is not looked
\* up has no position and no entry of the error list.
C2_SkipFilter ==
    LoopRan =>
        /\ \A i \in Rows :
              LookedUp(i) <=> PassesFilter(i)
        /\ \A i \in Rows : ~LookedUp(i) => PositionsFor(i) = << >>
        /\ ErrorSymbols = SymbolsOfRows(LookedUpUnpriced)

\* C2 witness: a call over a zero-quantity holding and a holding with an
\* unparseable number, neither looked up, the list of errors empty.
C2_Witness ==
    /\ LoopRan /\ Len(call.input) = 2
    /\ QtyIsZero(1) /\ ~Removed(1) /\ ~SymbolMissingOrEmpty(1) /\ ~Unparseable(1)
    /\ Unparseable(2) /\ ~Removed(2) /\ ~SymbolMissingOrEmpty(2)
    /\ call.requests = << >> /\ portfolio_df.rows = << >> /\ call.errs = << >>

\* C3 (as claimed): every returned position has a price above 0, and a
\* holding that passes the skip filter without getting a positive price has
\* no position and one entry of the error list.
C3_PositivePrices ==
    LoopRan =>
        /\ \A k \in 1..Len(portfolio_df.rows) : portfolio_df.rows[k].price > 0
        /\ ErrorSymbols =
              SymbolsOfRows({i \in Rows : PassesFilter(i)
                                          /\ ~(PriceGiven(i) /\ GivenPrice(i) > 0)})

(***************************************************************************)
(* Properties of the DCF calculation, under SpecDCF.                       *)
(***************************************************************************)
DcfPressed == dcf_out.kind # "none"
NothingValued ==
    /\ dcf_out.terminal_value = NoCell
    /\ dcf_out.terminal_value_discounted = NoCell
    /\ dcf_out.enterprise_value = NoCell
    /\ dcf_out.equity_value = NoCell
    /\ dcf_out.fair_value_per_share = NoCell

\* C4 (as claimed): a run with discount_rate <= perpetual rate is rejected
\* with the error message and values nothing; a run with discount_rate >
\* perpetual rate produces a fair value per share.
C4_RejectsNonConvergent ==
    DcfPressed =>
        IF dcf_in.discount <= dcf_in.perpetual
        THEN dcf_out.kind = "error" /\ NothingValued
        ELSE dcf_out.kind = "result" /\ dcf_out.fair_value_per_share # NoCell

\* C5 (as claimed): a run with shares_outstanding <= 0 is rejected with an
\* error and produces no fair value per share.  (Stated for the runs that
\* get past the projection loop.)
C5_RejectsNonPositiveShares ==
    (DcfPressed /\ dcf_in.shares_out <= 0 /\ dcf_out.raised_at # "projection") =>
        dcf_out.kind = "error" /\ dcf_out.fair_value_per_share = NoCell

\* C6 (as claimed): the margin of safety is (fair_value - price) / price * 100
\* when price > 0, and no number at all (NotApplicable) when price <= 0.
C6_MarginNotApplicable ==
    dcf_out.kind = "result" =>
        IF dcf_in.default_price > 0
        THEN /\ dcf_out.margin_of_safety # NoCell
             /\ RMul(ValueOf(dcf_out.margin_of_safety), RInt(dcf_in.default_price))
                  = RMul(RSub(ValueOf(dcf_out.fair_value_per_share),
                              RInt(dcf_in.default_price)), RInt(100))
        ELSE dcf_out.margin_of_safety = NoCell

(***************************************************************************)
(* Properties of the snapshot and of the report.                           *)
(***************************************************************************)
StoredWeights == [k \in 1..Len(portfolio_df.rows) |-> portfolio_df.rows[k].weight]
StoredValues == [k \in 1..Len(portfolio_df.rows) |-> portfolio_df.rows[k].market_value]

\* C7 (as claimed): a non-empty result has weights that sum to 100 and a
\* total that is the sum of the positions' market values, whatever the prices.
C7_WeightsSumTo100 ==
    portfolio_df.rows # << >> =>
        /\ FloatSum(StoredWeights) = Fin(RInt(100))
        /\ total_val = IntSum(StoredValues)

\* the stored weights of the positions a chart row stands for
WeightsBehind(k) ==
    IF chart_mode = "Detail" THEN <<portfolio_df.rows[k].weight>>
    ELSE LET those == SelectSeq(portfolio_df.rows,
                                LAMBDA q : q.symbol = Chart[k].label)
         IN  [j \in 1..Len(those) |-> those[j].weight]

\* C8 (as claimed): the percentage the chart shows for a position is its
\* stored weight (in merged mode: the sum of the stored weights of the
\* symbol's positions), that is, both use one weighting base.  (Stated for
\* the snapshots whose total is not 0, where both bases divide.)
C8_OneWeightingBase ==
    (ReportShown /\ total_val # 0) =>
        \A k \in 1..Len(Chart) :
            Chart[k].label # CashLabel =>
                Chart[k].percent = FloatSum(WeightsBehind(k))

\* the entries of the error list of a call in which the rows of S failed
FailureEntries(S) ==
    LET rs == RowsInOrder(S)
    IN  [k \in 1..Len(rs) |-> [symbol |-> TickerOf(rs[k]),
                               reason |-> call.quote[rs[k]].reason]]
FailedRows == {i \in Rows : LookedUp(i) /\ ~PriceGiven(i)}

\* C9 (as claimed): when no holding yields a position the call returns an
\* empty result, total 0 and one error entry per holding whose lookup failed.
C9_Original ==
    (call.made /\ portfolio_df.rows = << >>) =>
        /\ total_val = 0
        /\ call.errs = FailureEntries(FailedRows)

\* C9 (amended): when no holding yields a position the call returns an empty
\* result and total 0; with the client constructed the error list has one
\* entry per holding whose lookup failed, in input order; with the client
\* not constructed it has the connection-failure entry alone and nothing was
\* looked up.
C9_EmptySnapshot ==
    (call.made /\ portfolio_df.rows = << >>) =>
        /\ total_val = 0
        /\ IF call.client_ok
           THEN call.errs = FailureEntries(FailedRows)
           ELSE call.errs = <<ConnectionError>> /\ call.requests = << >>

\* C9 witness: two holdings were looked up and both lookups failed.
C9_Witness ==
    /\ LoopRan /\ Len(call.input) = 2
    /\ LookedUp(1) /\ LookedUp(2)
    /\ portfolio_df.rows = << >> /\ Len(call.errs) = 2

\* C10 (as claimed): one request to the price source per looked-up holding.
C10_Original ==
    LoopRan => \A i \in Rows : LookedUp(i) => Len(RequestsFor(i)) = 1

TradeRequest(i) == [idx |-> i - 1, kind |-> "trade", symbol |-> TickerOf(i)]
QuoteRequest(i) == [idx |-> i - 1, kind |-> "quote", symbol |-> TickerOf(i)]

\* C10 (amended): a holding that is not skipped causes one latest-trade
\* request and, only when that request fails, one latest-quote request after
\* it; never a third request, and none for a skipped holding.
C10_TradeThenQuote ==
    LoopRan =>
        \A i \in Rows :
            IF ~PassesFilter(i)
            THEN RequestsFor(i) = << >>
            ELSE IF call.trade[i].ok
            THEN RequestsFor(i) = <<TradeRequest(i)>>
            ELSE RequestsFor(i) = <<TradeRequest(i), QuoteRequest(i)>>

\* C10 witness: one holding priced by its trade request, another whose trade
\* request failed and whose quote request failed too.
C10_Witness ==
    /\ LoopRan /\ Len(call.input) = 2
    /\ Len(RequestsFor(1)) = 1 /\ PositionsFor(1) # << >>
    /\ Len(RequestsFor(2)) = 2 /\ PositionsFor(2) = << >>

(***************************************************************************)
(* C11: the arithmetic of a returned position                              *)
(***************************************************************************)
\* what the holdings table and the price source gave for the k-th position
QuantityOf(k) == ValueOf(call.input[portfolio_df.rows[k].idx + 1].qty)
CostBasisOf(k) == ValueOf(call.input[portfolio_df.rows[k].idx + 1].cost)
PriceOf(k) == GivenPrice(portfolio_df.rows[k].idx + 1)

\* C11: for every returned position, market value = quantity * price, total
\* cost = quantity * cost basis, profit per share = price - cost basis, total
\* profit = market value - total cost, and the return in percent is profit
\* per share / cost basis * 100 when the cost basis is positive, 0 otherwise.
C11_PositionArithmetic ==
    LoopRan =>
        \A k \in 1..Len(portfolio_df.rows) :
            LET p == portfolio_df.rows[k]
            IN  /\ p.market_value = QuantityOf(k) * PriceOf(k)
                /\ p.total_cost = QuantityOf(k) * CostBasisOf(k)
                /\ p.profit_per_share = PriceOf(k) - CostBasisOf(k)
                /\ p.total_profit = p.market_value - p.total_cost
                /\ IF CostBasisOf(k) > 0
                   THEN /\ p.roi_percent[1] * CostBasisOf(k)
                              = p.profit_per_share * 100 * p.roi_percent[2]
                        /\ p.roi_percent[2] > 0
                   ELSE p.roi_percent = RInt(0)

\* C11 witness: 10 shares bought at 150 and priced at 180 are returned with
\* market value 1800, total profit 300 and a return of 20 percent, next to a
\* position whose cost basis is 0.
C11_Witness ==
    /\ LoopRan
    /\ \E k \in 1..Len(portfolio_df.rows) :
          /\ QuantityOf(k) = 10 /\ CostBasisOf(k) = 150 /\ PriceOf(k) = 180
          /\ portfolio_df.rows[k].market_value = 1800
          /\ portfolio_df.rows[k].total_profit = 300
          /\ portfolio_df.rows[k].roi_percent = RInt(20)
    /\ \E k \in 1..Len(portfolio_df.rows) :
          CostBasisOf(k) = 0 /\ portfolio_df.rows[k].roi_percent = RInt(0)

(***************************************************************************)
(* C12: the ten-period projection                                          *)
(***************************************************************************)
Min(a, b) == IF a <= b THEN a ELSE b
Max(a, b) == IF a >= b THEN a ELSE b

\* base_fcf * (1 + stage1_growth)^min(i,5) * (1 + stage2_growth)^max(i-5,0)
ClaimedFcf(i) ==
    RMul(RMul(RInt(dcf_in.base_fcf),
              RPow(RAdd(RInt(1), RateOf(dcf_in.growth_1_5)), Min(i, 5))),
         RPow(RAdd(RInt(1), RateOf(dcf_in.growth_6_10)), Max(i - 5, 0)))
\* (1 + discount_rate)^i
ClaimedFactor(i) == RPow(RAdd(RInt(1), RateOf(dcf_in.discount)), i)

\* C12: a press of the DCF button leaves a projection of exactly 10 periods;
\* in period i the projected FCF is base_fcf grown min(i,5) times at the stage
\* 1 rate and max(i-5,0) times at the stage 2 rate, the discount factor is
\* (1 + discount_rate)^i, and the discounted FCF is their quotient.
C12_TenPeriodProjection ==
    DcfPressed =>
        /\ Len(dcf_out.future_fcf) = 10
        /\ Len(dcf_out.discount_factors) = 10
        /\ Len(dcf_out.discounted_fcf) = 10
        /\ \A i \in 1..10 :
              /\ dcf_out.future_fcf[i] = ClaimedFcf(i)
              /\ dcf_out.discount_factors[i] = ClaimedFactor(i)
              /\ ~RIsZero(ClaimedFactor(i))
              /\ dcf_out.discounted_fcf[i] = RDiv(ClaimedFcf(i), ClaimedFactor(i))

(***************************************************************************)
(* C13: how a holding leaves the holdings list                             *)
(***************************************************************************)
\* A step in which no holding leaves the list: every row is still there,
\* at its place and with its symbol (the symbol cannot be edited).
HoldingsStay ==
    /\ Len(my_portfolio_data') >= Len(my_portfolio_data)
    /\ \A i \in 1..Len(my_portfolio_data) :
          my_portfolio_data'[i].sym = my_portfolio_data[i].sym

\* A step that removes exactly the holdings whose removal flag is true: the
\* other holdings remain, in their order, with symbol, quantity and cost.
Unchecked == RowsInOrder({i \in 1..Len(my_portfolio_data) : ~my_portfolio_data[i].remove})
RemovesExactlyChecked ==
    /\ Len(my_portfolio_data') = Len(Unchecked)
    /\ \A k \in 1..Len(Unchecked) :
          /\ my_portfolio_data'[k].sym = my_portfolio_data[Unchecked[k]].sym
          /\ my_portfolio_data'[k].qty = my_portfolio_data[Unchecked[k]].qty
          /\ my_portfolio_data'[k].cost = my_portfolio_data[Unchecked[k]].cost

\* C13 (as claimed): over any sequence of user actions a holding leaves the
\* holdings list only through the delete-checked action; that action removes
\* exactly the holdings whose removal flag is true; an edit, such as setting
\* the removal flag, keeps every holding in the list.
C13_Original ==
    [][/\ ~HoldingsStay => DeleteChecked
       /\ DeleteChecked => RemovesExactlyChecked
       /\ EditHolding => HoldingsStay]_vars

\* C13 (amended): a holding leaves the holdings list only through the
\* delete-checked action or through load group or restore backup, which put
\* the saved list in place of the current one; delete checked removes exactly
\* the holdings whose removal flag is true; an edit keeps every holding.
C13_LeavesByDeleteOrReplace ==
    [][/\ ~HoldingsStay => DeleteChecked \/ LoadGroup \/ RestoreBackup
       /\ DeleteChecked => RemovesExactlyChecked
       /\ EditHolding => HoldingsStay]_vars

\* C13 witness: after two user actions of the session only the second
\* default holding is left: the first one was checked and then deleted.
C13_Witness ==
    /\ clicks = 2
    /\ my_portfolio_data = <<DefaultPortfolio[2]>>

(***************************************************************************)
(* C14: the stored snapshot                                                *)
(***************************************************************************)
SnapshotUnchanged == portfolio_df' = portfolio_df /\ total_val' = total_val

\* A step that stores what get_portfolio_data returns for the current
\* holdings list and the answers of the price source recorded in call.
RefreshStep ==
    /\ call'.made /\ call'.input = my_portfolio_data
    /\ \E ret \in {get_portfolio_data(call'.client_ok, my_portfolio_data,
                                      call'.trade, call'.quote)} :
          /\ portfolio_df' = [none |-> FALSE, rows |-> ret.df]
          /\ total_val' = ret.total_val

\* the total market value of the positions of the last refresh
LastRefreshTotal == IntSum(StoredValues)

\* C14: the stored snapshot (portfolio_df, total_val) is changed only by the
\* refresh-quotes action; adding, editing or deleting holdings, loading or
\* restoring a portfolio and changing the cash balance leave it unchanged;
\* the displayed total assets are the total market value of the last refresh
\* plus the current cash balance.
C14_SnapshotOnlyByRefresh ==
    [][/\ ~SnapshotUnchanged => RefreshStep
       /\ (AddHolding \/ EditHolding \/ DeleteChecked \/ LoadGroup
             \/ RestoreBackup \/ SetCash) => SnapshotUnchanged
       /\ ReportShown' => total_assets' = LastRefreshTotal' + my_cash_balance']_vars

\* C14 witness: a report is shown for a snapshot worth something while the
\* holdings list is no longer the one that was refreshed, it has no holding
\* of the snapshot left, and the cash balance has been changed.
C14_Witness ==
    /\ ReportShown /\ total_val > 0
    /\ my_portfolio_data # call.input
    /\ \A i \in 1..Len(my_portfolio_data) :
          \A k \in 1..Len(portfolio_df.rows) :
             my_portfolio_data[i].sym # Cell(portfolio_df.rows[k].symbol)
    /\ my_cash_balance > 0
    /\ total_assets = total_val + my_cash_balance

====
